---- MODULE Spec2Model ----
(***************************************************************************)
(* midiplayer.py: the MIDI timeline builder, the playback worker thread,   *)
(* the output-port manager and the session controller (play_midi_file,     *)
(* stop_all_playback, play_audio_file).                                    *)
(***************************************************************************)
EXTENDS Integers, Sequences, FiniteSets, TLC

(* ------------------------------ bounds --------------------------------- *)
\* tracks of an input file
MaxTracks == 2
\* events of an input file, all tracks together
MaxEvents == 4
\* largest delta-tick of an event
MaxDelta == 2
\* calls of play_midi_file with a readable file (worker threads ever started)
MaxThreads == 2
\* decoder processes ever launched
MaxProcs == 2
\* MIDI output endpoints of the host that pass the name filter
NumPorts == 2

\* items of the JSON object a persisted channel map file holds at start
MaxItems == 2
\* files scan_files finds in a directory
MaxFiles == 2
\* button presses handled
MaxPresses == 6
\* largest track index, of either sign, given to the channel router
MaxIdx == 33

(* ------------------------- program constants --------------------------- *)
NUM_TRACKS == 16
NUM_OUT == 16

VARIABLES
    stop_flag,        \* threading.Event: is it set
    midi_thread,      \* 0 (None) or the id of the last started worker thread
    threads,          \* id -> the worker thread's position and locals
    playback_active,
    playback_events,  \* the timeline: sequence of [abs_tick, track_idx, msg]
    midi_outputs,     \* list of port objects, a port object is <<name, generation>>
    openPorts,        \* port objects opened and not yet closed
    ngen,             \* calls of open_all_midi_outputs so far
    audio_proc,       \* 0 (None) or the pid of the Popen object held
    running,          \* pids of decoder processes that are running
    nproc,            \* decoder processes launched so far
    nplays,           \* calls of play_midi_file with a readable file so far
    track_map,        \* track index -> channel
    sent,             \* the port.send calls that succeeded, in order, since
                      \* the last worker thread was started and until it ends
    ctl,              \* caller -> position and locals of the control call it is in
    hist,             \* the last control call that returned; what it found
                      \* when it started is kept until the next call, for a
                      \* call that stops playback or raises
    operation_mode,   \* "main screen", "MIDI FILE", "AUDIO FILE" or "SETUP"
    selected_index,
    in_edit,
    paths,            \* the list paths (files has the same length); "" is 0
    map_file,         \* what MAP_FILE holds
    hb,               \* where main() and handle_button are: "boot" before
                      \* load_mapping, "reset" in the RESET branch while
                      \* stop_all_playback runs, else "idle"
    npress,           \* button presses handled so far
    saved             \* how the last save_mapping ended: "none", "ok", "failed"

vars == <<stop_flag, midi_thread, threads, playback_active, playback_events,
          midi_outputs, openPorts, ngen, audio_proc, running, nproc, nplays,
          track_map, sent, ctl, hist, operation_mode, selected_index, in_edit,
          paths, map_file, hb, npress, saved>>

\* The state of the user interface and of the persisted channel map.
ui == <<operation_mode, selected_index, in_edit, paths, map_file, hb, npress, saved>>

Range(s) == {s[k] : k \in DOMAIN s}

(* ------------------------------ MIDI files ----------------------------- *)
\* A message of a track: its delta-tick (msg.time), msg.is_meta, and its place
\* in the track, which stands for the identity of the message object.
MsgVals == (0..MaxDelta) \X BOOLEAN

Msg(v, k) == [time |-> v[1], is_meta |-> v[2], id |-> k]

RECURSIVE SumTo(_, _)
SumTo(l, n) == IF n = 0 THEN 0 ELSE l[n] + SumTo(l, n - 1)

\* The track lengths of a file of nt tracks and n events.
Lens(nt, n) == {l \in [1..nt -> 0..n] : SumTo(l, nt) = n}

\* The file whose events, track after track, are flat, cut by the lengths l.
MkTracks(flat, l) ==
    [t \in DOMAIN l |->
        [k \in 1..l[t] |-> Msg(flat[SumTo(l, t - 1) + k], k)]]

\* What mido.MidiFile(path) yields: the tracks, or ok = FALSE when it raises.
MidiFile(tracks) == [ok |-> TRUE, tracks |-> tracks]

BadFile == [ok |-> FALSE, tracks |-> <<>>]

(* ---------------------------- timeline builder ------------------------- *)
SkipMetaTicks(abs_tick, msg) == IF msg.is_meta THEN abs_tick ELSE abs_tick + msg.time

\* abs_tick += msg.time
Accumulate(abs_tick, msg) == abs_tick + msg.time

\* if not msg.is_meta
Kept(msg) == ~msg.is_meta

Entry(abs_tick, track_idx, msg) ==
    [abs_tick |-> abs_tick, track_idx |-> track_idx, msg |-> msg]

\* for msg in track: from the k-th message on, with the accumulator as it is
RECURSIVE TrackEvents(_, _, _, _)
TrackEvents(track, track_idx, k, abs_tick) ==
    IF k > Len(track) THEN <<>>
    ELSE LET tick == Accumulate(abs_tick, track[k])
         IN  (IF Kept(track[k]) THEN <<Entry(tick, track_idx, track[k])>> ELSE <<>>)
             \o TrackEvents(track, track_idx, k + 1, tick)

\* for track_idx, track in enumerate(mid.tracks): abs_tick = 0; ...
RECURSIVE FileEvents(_, _)
FileEvents(tracks, n) ==
    IF n = 0 THEN <<>>
    ELSE FileEvents(tracks, n - 1) \o TrackEvents(tracks[n], n - 1, 1, 0)

\* An entry goes before the entries of the same key.
RECURSIVE InsertBeforeEqual(_, _)
InsertBeforeEqual(s, e) ==
    IF s = <<>> THEN <<e>>
    ELSE IF s[Len(s)].abs_tick < e.abs_tick THEN Append(s, e)
         ELSE Append(InsertBeforeEqual(SubSeq(s, 1, Len(s) - 1), e), s[Len(s)])

\* list.sort is stable: an entry goes behind every entry whose key is not larger.
RECURSIVE InsertByTick(_, _)
InsertByTick(s, e) ==
    IF s = <<>> THEN <<e>>
    ELSE IF s[Len(s)].abs_tick <= e.abs_tick THEN Append(s, e)
         ELSE Append(InsertByTick(SubSeq(s, 1, Len(s) - 1), e), s[Len(s)])

RECURSIVE SortFrom(_, _)
SortFrom(done, rest) ==
    IF rest = <<>> THEN done
    ELSE SortFrom(InsertByTick(done, Head(rest)), Tail(rest))

Unsorted(events) == events

\* events.sort(key=lambda x: x[0])
SortByTick(events) == SortFrom(<<>>, events)

Timeline(mid) == SortByTick(FileEvents(mid.tracks, Len(mid.tracks)))

(* The files played in the session model: one that cannot be parsed, and one
   of two tracks with a meta event and two notes at the same tick. *)
TwoTracks ==
    MidiFile(<< <<Msg(<<0, TRUE>>, 1), Msg(<<1, FALSE>>, 2)>>,
                <<Msg(<<1, FALSE>>, 1)>> >>)

PlayInputs == {BadFile, TwoTracks}

(* ------------------------------ callers -------------------------------- *)
\* The threads of control that issue play_midi_file, stop_all_playback and
\* play_audio_file; the sequential controller is "c1".
Callers == {"c1", "c2"}

SeqCallers == {"c1"}

ThreadIds == 1..MaxThreads

Unborn ==
    [pc |-> "unborn", events |-> <<>>, i |-> 0, prev_tick |-> 0,
     outs |-> <<>>, j |-> 0, ch |-> 0]

\* A thread that has ended: its locals are gone with it.
Ended(how) == [Unborn EXCEPT !.pc = how]

\* threading.Thread.is_alive()
Alive(t) == threads[t].pc \notin {"unborn", "done", "dead"}

AliveThreads == {t \in ThreadIds : Alive(t)}

\* What the rest of the program can see of playback.
Obs ==
    [active |-> playback_active, outputs |-> midi_outputs, open |-> openPorts,
     alive |-> AliveThreads, audio |-> audio_proc, running |-> running,
     events |-> playback_events, map |-> track_map]

\* Obs before anything was played.
NoObs ==
    [active |-> FALSE, outputs |-> <<>>, open |-> {}, alive |-> {}, audio |-> 0,
     running |-> {}, events |-> <<>>, map |-> [i \in 0..(NUM_TRACKS - 1) |-> i]]

NoPre == [alive |-> FALSE, decoding |-> FALSE, ngen |-> 0, after |-> "none"]

Idle == [pc |-> "idle", op |-> "none", file |-> BadFile, pre |-> NoPre, obs |-> NoObs]

\* What a call finds when it starts, kept with the call.
Pre ==
    [alive |-> AliveThreads # {}, decoding |-> audio_proc \in running,
     ngen |-> ngen, after |-> hist.op]

NoHist ==
    [op |-> "none", res |-> "none", pre |-> NoPre]

(* ------------------------------ channel map ---------------------------- *)
\* track_map = {i: i for i in range(NUM_TRACKS)}
DefaultMap == [i \in 0..(NUM_TRACKS - 1) |-> i]

\* The remainder with the sign of the dividend.
Rem(a, b) == IF a >= 0 THEN a % b ELSE 0 - ((0 - a) % b)

RouteRem(map, track_idx) ==
    Rem(IF track_idx \in DOMAIN map THEN map[track_idx] ELSE track_idx, NUM_OUT)

\* track_map.get(track_idx, track_idx) % NUM_OUT
Route(map, track_idx) ==
    (IF track_idx \in DOMAIN map THEN map[track_idx] ELSE track_idx) % NUM_OUT

(* ------------------------- the persisted channel map ------------------- *)
\* Strings are sequences of characters.
Digits == <<"0", "1", "2", "3", "4", "5", "6", "7", "8", "9">>

DigitVal(ch) == (CHOOSE k \in DOMAIN Digits : Digits[k] = ch) - 1

IsDigit(ch) == \E k \in DOMAIN Digits : Digits[k] = ch

\* str(n) of a non-negative int
RECURSIVE NatToStr(_)
NatToStr(n) ==
    IF n < 10 THEN <<Digits[n + 1]>>
    ELSE NatToStr(n \div 10) \o <<Digits[(n % 10) + 1]>>

AbsToStr(n) == NatToStr(IF n < 0 THEN 0 - n ELSE n)

\* str(n), as json.dump writes an int key
IntToStr(n) == IF n < 0 THEN <<"-">> \o NatToStr(0 - n) ELSE NatToStr(n)

\* The value of a string of digits, read from the left.
RECURSIVE DigitsVal(_, _)
DigitsVal(s, acc) ==
    IF s = <<>> THEN acc ELSE DigitsVal(Tail(s), 10 * acc + DigitVal(Head(s)))

\* int(s) of a string: an optional sign and at least one digit, else ValueError
StrToInt(s) ==
    LET body == IF s # <<>> /\ Head(s) \in {"-", "+"} THEN Tail(s) ELSE s
    IN  IF body = <<>> \/ \E k \in DOMAIN body : ~IsDigit(body[k])
        THEN [ok |-> FALSE, val |-> 0]
        ELSE [ok |-> TRUE,
              val |-> IF Head(s) = "-" THEN 0 - DigitsVal(body, 0)
                      ELSE DigitsVal(body, 0)]

\* JSON values: an int, a float (v is its integer part, the fraction is not
\* zero), a string, null.
JInt(n) == [t |-> "int", v |-> n, s |-> <<>>]

JFloat(whole) == [t |-> "float", v |-> whole, s |-> <<>>]

JStr(s) == [t |-> "str", v |-> 0, s |-> s]

JNull == [t |-> "null", v |-> 0, s |-> <<>>]

\* int(v) of a JSON value: a float is truncated, a string is parsed, None
\* raises TypeError
ToInt(x) ==
    CASE x.t = "int" -> [ok |-> TRUE, val |-> x.v]
      [] x.t = "float" -> [ok |-> TRUE, val |-> x.v]
      [] x.t = "str" -> StrToInt(x.s)
      [] OTHER -> [ok |-> FALSE, val |-> 0]

\* What MAP_FILE holds: nothing (no such file), text that is not JSON, JSON
\* that is not an object, or an object: its items <<key string, value>> in
\* the order of the file.
NoFile == [kind |-> "missing", items |-> <<>>]

NotJson == [kind |-> "invalid", items |-> <<>>]

NotObject == [kind |-> "other", items |-> <<>>]

JObject(items) == [kind |-> "object", items |-> items]

\* d[k] = v of a dict
Put(map, k, v) == [x \in (DOMAIN map) \cup {k} |-> IF x = k THEN v ELSE map[x]]

\* {int(k): int(v) for k, v in data.items()}: from the n-th item on, with the
\* dict built so far; ok = FALSE when an int() raises.
RECURSIVE Comprehend(_, _, _)
Comprehend(items, n, acc) ==
    IF n > Len(items) THEN [ok |-> TRUE, map |-> acc]
    ELSE LET k == StrToInt(items[n][1])
             v == ToInt(items[n][2])
         IN  IF k.ok /\ v.ok
             THEN Comprehend(items, n + 1, Put(acc, k.val, v.val))
             ELSE [ok |-> FALSE, map |-> acc]

\* The try block of load_mapping runs to its end.
Loads(content) ==
    /\ content.kind = "object"
    /\ Comprehend(content.items, 1, <<>>).ok

KeepPartial(content) ==
    IF content.kind = "object"
    THEN Comprehend(content.items, 1, <<>>).map
    ELSE <<>>

\* The except branch and the else branch of load_mapping.
Fallback(content) == DefaultMap

\* track_map after load_mapping()
LoadMapping(content) ==
    IF Loads(content)
    THEN Comprehend(content.items, 1, <<>>).map
    ELSE Fallback(content)

\* The keys of a dict, smallest first.
RECURSIVE KeysAsc(_)
KeysAsc(S) ==
    IF S = {} THEN <<>>
    ELSE LET m == CHOOSE x \in S : \A y \in S : x <= y
         IN  <<m>> \o KeysAsc(S \ {m})

\* json.dump(track_map, f): every key as str(key). The items are written in
\* the order of the dict; the keys being distinct, what load_mapping reads
\* back does not depend on that order, and they are here in key order.
Dump(map) ==
    LET ks == KeysAsc(DOMAIN map)
    IN  JObject([n \in DOMAIN ks |-> <<IntToStr(ks[n]), JInt(map[ks[n]])>>])

\* The key strings and values of the persisted files the model starts from.
KeyStrs == {<<"0">>, <<"0", "0">>, <<"1", "6">>, <<"-", "1">>, <<"x">>}

JVals == {JInt(3), JInt(16), JInt(0 - 1), JFloat(5), JStr(<<"7">>), JNull}

(* ------------------------------ output ports --------------------------- *)
\* mido.get_output_names(): name 0 is the 'Midi Through' port.
OutputNames == 0..NumPorts

\* "MIDI" in n and not n.startswith("Midi Through")
Valid == {n \in OutputNames : n # 0}

\* The names of a set, in the order of the list of names.
RECURSIVE InOrder(_, _)
InOrder(names, n) ==
    IF n > NumPorts THEN <<>>
    ELSE (IF n \in names THEN <<n>> ELSE <<>>) \o InOrder(names, n + 1)

\* The ports open_all_midi_outputs appends when open_output works for `ok`.
Opened(ok, gen) == LET ns == InOrder(ok, 0) IN [k \in DOMAIN ns |-> <<ns[k], gen>>]

CloseNothing(outs, open) == open

\* for out in midi_outputs: out.close()
CloseEach(outs, open) == open \ Range(outs)

\* midi_outputs = [] at the end of close_all_midi_outputs
Emptied(outs) == <<>>

StillRunning(p, run) == run

\* audio_proc.terminate()
Terminate(p, run) == run \ {p}

NoWait(t) == TRUE

\* if midi_thread: midi_thread.join()
JoinReturns(t) == IF t = 0 THEN TRUE ELSE ~Alive(t)

(* ---------------------------------- Init ------------------------------- *)
Init ==
    /\ stop_flag = FALSE
    /\ midi_thread = 0
    /\ threads = [t \in ThreadIds |-> Unborn]
    /\ playback_active = FALSE
    /\ playback_events = <<>>
    /\ midi_outputs = <<>>
    /\ openPorts = {}
    /\ ngen = 0
    /\ audio_proc = 0
    /\ running = {}
    /\ nproc = 0
    /\ nplays = 0
    /\ track_map = DefaultMap
    /\ sent = <<>>
    /\ ctl = [c \in Callers |-> Idle]
    /\ hist = NoHist
    /\ operation_mode = "main screen"
    /\ selected_index = 0
    /\ in_edit = FALSE
    /\ paths = <<0>>
    /\ map_file = NoFile
    /\ hb = "idle"
    /\ npress = 0
    /\ saved = "none"

(* ------------------------- _midi_playback_worker ----------------------- *)
Cur(t) == threads[t].events[threads[t].i]

\* The thread starts running: the for statement takes the list playback_events.
W_Begin(t) ==
    /\ threads[t].pc = "begin"
    /\ UNCHANGED ui
    /\ threads' = [threads EXCEPT ![t].pc = "iter", ![t].events = playback_events,
                                  ![t].prev_tick = 0]
    /\ UNCHANGED <<stop_flag, midi_thread, playback_active, playback_events,
                   midi_outputs, openPorts, ngen, audio_proc, running, nproc,
                   nplays, track_map, sent, ctl, hist>>

\* The next entry of the list, if any, and the test of stop_flag.
W_Next(t) ==
    /\ threads[t].pc = "iter"
    /\ UNCHANGED ui
    /\ threads' =
         IF threads[t].i >= Len(threads[t].events) \/ stop_flag
         THEN [threads EXCEPT ![t].pc = "close"]
         ELSE [threads EXCEPT ![t].pc = "sleep", ![t].i = @ + 1]
    /\ UNCHANGED <<stop_flag, midi_thread, playback_active, playback_events,
                   midi_outputs, openPorts, ngen, audio_proc, running, nproc,
                   nplays, track_map, sent, ctl, hist>>

\* time.sleep returns; the channel is computed and the loop over the list
\* midi_outputs begins.
W_Wake(t) ==
    /\ threads[t].pc = "sleep"
    /\ UNCHANGED ui
    /\ threads' =
         IF Cur(t).msg.is_meta \/ midi_outputs = <<>>
         THEN [threads EXCEPT ![t].pc = "iter", ![t].prev_tick = Cur(t).abs_tick]
         ELSE [threads EXCEPT ![t].pc = "send", ![t].outs = midi_outputs,
                              ![t].j = 0,
                              ![t].ch = Route(track_map, Cur(t).track_idx)]
    /\ UNCHANGED <<stop_flag, midi_thread, playback_active, playback_events,
                   midi_outputs, openPorts, ngen, audio_proc, running, nproc,
                   nplays, track_map, sent, ctl, hist>>

\* port.send(out_msg) works.
W_SendOk(t) ==
    /\ threads[t].pc = "send"
    /\ UNCHANGED ui
    /\ LET port == threads[t].outs[threads[t].j + 1]
       IN  /\ port \in openPorts
           /\ sent' = Append(sent, [th |-> t, idx |-> threads[t].i, port |-> port,
                                    ch |-> threads[t].ch])
    /\ threads' =
         IF threads[t].j + 1 = Len(threads[t].outs)
         THEN [threads EXCEPT ![t].pc = "iter", ![t].j = @ + 1,
                              ![t].prev_tick = Cur(t).abs_tick]
         ELSE [threads EXCEPT ![t].j = @ + 1]
    /\ UNCHANGED <<stop_flag, midi_thread, playback_active, playback_events,
                   midi_outputs, openPorts, ngen, audio_proc, running, nproc,
                   nplays, track_map, ctl, hist>>

\* port.send(out_msg) raises: nothing in the worker catches it, the thread ends.
W_SendRaises(t) ==
    /\ threads[t].pc = "send"
    /\ UNCHANGED ui
    /\ threads' = [threads EXCEPT ![t] = Ended("dead")]
    /\ sent' = IF t = midi_thread THEN <<>> ELSE sent
    /\ UNCHANGED <<stop_flag, midi_thread, playback_active, playback_events,
                   midi_outputs, openPorts, ngen, audio_proc, running, nproc,
                   nplays, track_map, ctl, hist>>

\* close_all_midi_outputs() after the loop
W_Close(t) ==
    /\ threads[t].pc = "close"
    /\ UNCHANGED ui
    /\ openPorts' = CloseEach(midi_outputs, openPorts)
    /\ midi_outputs' = Emptied(midi_outputs)
    /\ threads' = [threads EXCEPT ![t].pc = "deact"]
    /\ UNCHANGED <<stop_flag, midi_thread, playback_active, playback_events,
                   ngen, audio_proc, running, nproc, nplays, track_map, sent,
                   ctl, hist>>

\* playback_active = False; the thread ends.
W_Deact(t) ==
    /\ threads[t].pc = "deact"
    /\ UNCHANGED ui
    /\ playback_active' = FALSE
    /\ threads' = [threads EXCEPT ![t] = Ended("done")]
    /\ sent' = IF t = midi_thread THEN <<>> ELSE sent
    /\ UNCHANGED <<stop_flag, midi_thread, playback_events, midi_outputs,
                   openPorts, ngen, audio_proc, running, nproc, nplays,
                   track_map, ctl, hist>>

Worker(t) ==
    \/ W_Begin(t)
    \/ W_Next(t)
    \/ W_Wake(t)
    \/ W_SendOk(t)
    \/ W_SendRaises(t)
    \/ W_Close(t)
    \/ W_Deact(t)

(* ------------------------------ control calls -------------------------- *)
\* The call of caller c moves on to pc.
Goto(c, pc) == ctl' = [ctl EXCEPT ![c].pc = pc]

\* The call of caller c returns (res = "ok") or raises (res = "error").
Return(c, res) ==
    /\ ctl' = [ctl EXCEPT ![c] = Idle]
    /\ hist' = [op |-> ctl[c].op, res |-> res,
                pre |-> IF ctl[c].op = "play_midi" /\ res = "ok"
                        THEN NoPre ELSE ctl[c].pre]

\* A call of play_midi_file(path) begins; f is what mido.MidiFile(path) yields.
Enter_play_midi(c, f) ==
    /\ ctl[c].pc = "idle"
    /\ f.ok => nplays < MaxThreads
    /\ nplays' = IF f.ok THEN nplays + 1 ELSE nplays
    /\ ctl' = [ctl EXCEPT ![c] = [pc |-> "pm_set", op |-> "play_midi", file |-> f,
                                  pre |-> Pre, obs |-> Obs]]
    /\ UNCHANGED <<stop_flag, midi_thread, threads, playback_active,
                   playback_events, midi_outputs, openPorts, ngen, audio_proc,
                   running, nproc, track_map, sent>>
    /\ hist' = [hist EXCEPT !.pre = NoPre]

\* Nothing is called.
SkipStop(c) ==
    /\ ctl[c].pc = "idle"
    /\ UNCHANGED <<stop_flag, midi_thread, threads, playback_active,
                   playback_events, midi_outputs, openPorts, ngen, audio_proc,
                   running, nproc, nplays, track_map, sent, ctl, hist>>

\* A call of stop_all_playback() begins.
Enter_stop(c) ==
    /\ ctl[c].pc = "idle"
    /\ ctl' = [ctl EXCEPT ![c] = [pc |-> "st_set", op |-> "stop", file |-> BadFile,
                                  pre |-> Pre, obs |-> Obs]]
    /\ UNCHANGED <<stop_flag, midi_thread, threads, playback_active,
                   playback_events, midi_outputs, openPorts, ngen, audio_proc,
                   running, nproc, nplays, track_map, sent>>
    /\ hist' = [hist EXCEPT !.pre = NoPre]

\* A call of play_audio_file(path) begins.
Enter_play_audio(c) ==
    /\ ctl[c].pc = "idle"
    /\ nproc < MaxProcs
    /\ ctl' = [ctl EXCEPT ![c] = [pc |-> "st_set", op |-> "play_audio",
                                  file |-> BadFile, pre |-> Pre, obs |-> Obs]]
    /\ UNCHANGED <<stop_flag, midi_thread, threads, playback_active,
                   playback_events, midi_outputs, openPorts, ngen, audio_proc,
                   running, nproc, nplays, track_map, sent>>
    /\ hist' = [hist EXCEPT !.pre = NoPre]

\* The calls as the session model issues them, whatever the interface shows.
Call_play_midi(c, f) ==
    /\ Enter_play_midi(c, f)
    /\ UNCHANGED ui

Call_stop(c) ==
    /\ Enter_stop(c)
    /\ UNCHANGED ui

Call_play_audio(c) ==
    /\ Enter_play_audio(c)
    /\ UNCHANGED ui

(* play_midi_file *)
\* stop_flag.set()
PM_Set(c) ==
    /\ ctl[c].pc = "pm_set"
    /\ UNCHANGED ui
    /\ stop_flag' = TRUE
    /\ Goto(c, "pm_join")
    /\ UNCHANGED <<midi_thread, threads, playback_active, playback_events,
                   midi_outputs, openPorts, ngen, audio_proc, running, nproc,
                   nplays, track_map, sent, hist>>

\* if midi_thread: midi_thread.join()
PM_Join(c) ==
    /\ ctl[c].pc = "pm_join"
    /\ UNCHANGED ui
    /\ JoinReturns(midi_thread)
    /\ Goto(c, "pm_clear")
    /\ UNCHANGED <<stop_flag, midi_thread, threads, playback_active,
                   playback_events, midi_outputs, openPorts, ngen, audio_proc,
                   running, nproc, nplays, track_map, sent, hist>>

\* stop_flag.clear()
PM_Clear(c) ==
    /\ ctl[c].pc = "pm_clear"
    /\ UNCHANGED ui
    /\ stop_flag' = FALSE
    /\ Goto(c, "pm_parse")
    /\ UNCHANGED <<midi_thread, threads, playback_active, playback_events,
                   midi_outputs, openPorts, ngen, audio_proc, running, nproc,
                   nplays, track_map, sent, hist>>

\* mid = mido.MidiFile(path), which may raise, and the timeline built from it
PM_Parse(c) ==
    /\ ctl[c].pc = "pm_parse"
    /\ UNCHANGED ui
    /\ UNCHANGED <<stop_flag, midi_thread, threads, playback_active,
                   midi_outputs, openPorts, ngen, audio_proc, running, nproc,
                   nplays, track_map, sent>>
    /\ IF ctl[c].file.ok
       THEN /\ playback_events' = Timeline(ctl[c].file)
            /\ Goto(c, "pm_open")
            /\ UNCHANGED hist
       ELSE /\ UNCHANGED playback_events
            /\ Return(c, "error")

\* open_all_midi_outputs(): a port whose open_output raises is skipped
PM_Open(c) ==
    /\ ctl[c].pc = "pm_open"
    /\ UNCHANGED ui
    /\ \E ok \in SUBSET Valid :
          /\ midi_outputs' = Opened(ok, ngen + 1)
          /\ openPorts' = openPorts \cup Range(Opened(ok, ngen + 1))
    /\ ngen' = ngen + 1
    /\ Goto(c, "pm_act")
    /\ UNCHANGED <<stop_flag, midi_thread, threads, playback_active,
                   playback_events, audio_proc, running, nproc, nplays,
                   track_map, sent, hist>>

\* playback_active = True
PM_Act(c) ==
    /\ ctl[c].pc = "pm_act"
    /\ UNCHANGED ui
    /\ playback_active' = TRUE
    /\ Goto(c, "pm_start")
    /\ UNCHANGED <<stop_flag, midi_thread, threads, playback_events,
                   midi_outputs, openPorts, ngen, audio_proc, running, nproc,
                   nplays, track_map, sent, hist>>

\* midi_thread = threading.Thread(...); midi_thread.start()
PM_Start(c) ==
    /\ ctl[c].pc = "pm_start"
    /\ UNCHANGED ui
    /\ \E t \in ThreadIds :
          /\ threads[t].pc = "unborn"
          /\ \A u \in ThreadIds : u < t => threads[u].pc # "unborn"
          /\ midi_thread' = t
          /\ threads' = [threads EXCEPT ![t].pc = "begin"]
    /\ sent' = <<>>
    /\ UNCHANGED <<stop_flag, playback_active, playback_events, midi_outputs,
                   openPorts, ngen, audio_proc, running, nproc, nplays,
                   track_map>>
    /\ Return(c, "ok")

(* stop_all_playback, also as the first statement of play_audio_file *)
\* stop_flag.set()
ST_Set(c) ==
    /\ ctl[c].pc = "st_set"
    /\ UNCHANGED ui
    /\ stop_flag' = TRUE
    /\ Goto(c, "st_join")
    /\ UNCHANGED <<midi_thread, threads, playback_active, playback_events,
                   midi_outputs, openPorts, ngen, audio_proc, running, nproc,
                   nplays, track_map, sent, hist>>

\* if midi_thread: midi_thread.join()
ST_Join(c) ==
    /\ ctl[c].pc = "st_join"
    /\ UNCHANGED ui
    /\ JoinReturns(midi_thread)
    /\ Goto(c, "st_close")
    /\ UNCHANGED <<stop_flag, midi_thread, threads, playback_active,
                   playback_events, midi_outputs, openPorts, ngen, audio_proc,
                   running, nproc, nplays, track_map, sent, hist>>

\* close_all_midi_outputs()
ST_Close(c) ==
    /\ ctl[c].pc = "st_close"
    /\ UNCHANGED ui
    /\ openPorts' = CloseEach(midi_outputs, openPorts)
    /\ midi_outputs' = Emptied(midi_outputs)
    /\ Goto(c, "st_deact")
    /\ UNCHANGED <<stop_flag, midi_thread, threads, playback_active,
                   playback_events, ngen, audio_proc, running, nproc, nplays,
                   track_map, sent, hist>>

\* playback_active = False
ST_Deact(c) ==
    /\ ctl[c].pc = "st_deact"
    /\ UNCHANGED ui
    /\ playback_active' = FALSE
    /\ Goto(c, "st_term")
    /\ UNCHANGED <<stop_flag, midi_thread, threads, playback_events,
                   midi_outputs, openPorts, ngen, audio_proc, running, nproc,
                   nplays, track_map, sent, hist>>

\* if audio_proc: audio_proc.terminate(); audio_proc = None
ST_Term(c) ==
    /\ ctl[c].pc = "st_term"
    /\ UNCHANGED ui
    /\ IF audio_proc # 0
       THEN /\ running' = Terminate(audio_proc, running)
            /\ audio_proc' = 0
       ELSE UNCHANGED <<running, audio_proc>>
    /\ UNCHANGED <<stop_flag, midi_thread, threads, playback_active,
                   playback_events, midi_outputs, openPorts, ngen, nproc,
                   nplays, track_map, sent>>
    /\ IF ctl[c].op = "stop"
       THEN Return(c, "ok")
       ELSE Goto(c, "pa_popen") /\ UNCHANGED hist

(* play_audio_file, after stop_all_playback() *)
\* audio_proc = subprocess.Popen(["mpg123", "-q", path], ...), which may raise
PA_Popen(c) ==
    /\ ctl[c].pc = "pa_popen"
    /\ UNCHANGED ui
    /\ UNCHANGED <<stop_flag, midi_thread, threads, playback_active,
                   playback_events, midi_outputs, openPorts, ngen, nplays,
                   track_map, sent>>
    /\ \/ /\ nproc' = nproc + 1
          /\ running' = running \cup {nproc + 1}
          /\ audio_proc' = nproc + 1
          /\ Return(c, "ok")
       \/ /\ UNCHANGED <<nproc, running, audio_proc>>
          /\ Return(c, "error")

\* A decoder process comes to the end of its file and exits.
ProcExit ==
    /\ \E p \in running : running' = running \ {p}
    /\ UNCHANGED ui
    /\ UNCHANGED <<stop_flag, midi_thread, threads, playback_active,
                   playback_events, midi_outputs, openPorts, ngen, audio_proc,
                   nproc, nplays, track_map, sent, ctl, hist>>

\* The statements of the control calls after their first.
Steps(c) ==
    \/ PM_Set(c)
    \/ PM_Join(c)
    \/ PM_Clear(c)
    \/ PM_Parse(c)
    \/ PM_Open(c)
    \/ PM_Act(c)
    \/ PM_Start(c)
    \/ ST_Set(c)
    \/ ST_Join(c)
    \/ ST_Close(c)
    \/ ST_Deact(c)
    \/ ST_Term(c)
    \/ PA_Popen(c)

Control(c) ==
    \/ \E f \in PlayInputs : Call_play_midi(c, f)
    \/ Call_stop(c)
    \/ Call_play_audio(c)
    \/ Steps(c)

(* One controller issuing its calls one after the other, the worker threads
   and the decoder processes. *)
Next ==
    \/ \E c \in SeqCallers : Control(c)
    \/ \E t \in ThreadIds : Worker(t)
    \/ ProcExit

Spec == Init /\ [][Next]_vars

(* --------------------------- main and handle_button -------------------- *)
MODE_LIST == <<"MIDI FILE", "AUDIO FILE", "SETUP">>

Pins == {"BTN_UP", "BTN_DOWN", "BTN_SELECT", "BTN_RESET"}

Max(a, b) == IF a >= b THEN a ELSE b

Min(a, b) == IF a <= b THEN a ELSE b

\* What scan_files leaves in paths: [""] when it finds no file, else one path
\* for each file found.
ScanResults == {<<0>>} \cup {[k \in 1..n |-> k] : n \in 1..MaxFiles}

\* A button press is handled when the handler of the press before has returned.
Pressed ==
    /\ hb = "idle"
    /\ ctl["c1"].pc = "idle"
    /\ npress < MaxPresses
    /\ npress' = npress + 1

\* main(): load_mapping(); scan_files(); init_buttons()
Main_load ==
    /\ hb = "boot"
    /\ track_map' = LoadMapping(map_file)
    /\ \E found \in ScanResults : paths' = found
    /\ hb' = "idle"
    /\ UNCHANGED <<stop_flag, midi_thread, threads, playback_active,
                   playback_events, midi_outputs, openPorts, ngen, audio_proc,
                   running, nproc, nplays, sent, ctl, hist, operation_mode,
                   selected_index, in_edit, map_file, npress, saved>>

\* save_mapping(): the file holds the dump, or open() raised and it holds what
\* it held, or the write raised and it holds a part of the dump.
SaveMapping ==
    \/ /\ map_file' = Dump(track_map)
       /\ saved' = "ok"
    \/ /\ map_file' \in {map_file, NotJson}
       /\ saved' = "failed"

\* handle_button in "SETUP" mode. track_map[selected_index] of a track the map
\* does not hold raises KeyError and the handler ends.
HB_Setup(pin) ==
    /\ Pressed
    /\ operation_mode = "SETUP"
    /\ UNCHANGED <<stop_flag, midi_thread, threads, playback_active,
                   playback_events, midi_outputs, openPorts, ngen, audio_proc,
                   running, nproc, nplays, sent, ctl, hist, paths, hb>>
    /\ IF in_edit
       THEN CASE pin = "BTN_UP" ->
                    /\ track_map' =
                         IF selected_index \in DOMAIN track_map
                         THEN [track_map EXCEPT
                                 ![selected_index] = Max(0, @ - 1)]
                         ELSE track_map
                    /\ UNCHANGED <<operation_mode, selected_index, in_edit,
                                   map_file, saved>>
              [] pin = "BTN_DOWN" ->
                    /\ track_map' =
                         IF selected_index \in DOMAIN track_map
                         THEN [track_map EXCEPT
                                 ![selected_index] = Min(NUM_OUT - 1, @ + 1)]
                         ELSE track_map
                    /\ UNCHANGED <<operation_mode, selected_index, in_edit,
                                   map_file, saved>>
              [] pin = "BTN_SELECT" ->
                    /\ in_edit' = FALSE
                    /\ SaveMapping
                    /\ UNCHANGED <<operation_mode, selected_index, track_map>>
              [] OTHER ->
                    UNCHANGED <<operation_mode, selected_index, in_edit,
                                map_file, saved, track_map>>
       ELSE CASE pin = "BTN_UP" ->
                    /\ selected_index' = (selected_index - 1) % NUM_TRACKS
                    /\ UNCHANGED <<operation_mode, in_edit, map_file, saved,
                                   track_map>>
              [] pin = "BTN_DOWN" ->
                    /\ selected_index' = (selected_index + 1) % NUM_TRACKS
                    /\ UNCHANGED <<operation_mode, in_edit, map_file, saved,
                                   track_map>>
              [] pin = "BTN_SELECT" ->
                    /\ in_edit' = TRUE
                    /\ UNCHANGED <<operation_mode, selected_index, map_file,
                                   saved, track_map>>
              [] OTHER ->
                    /\ operation_mode' = "main screen"
                    /\ selected_index' = 0
                    /\ UNCHANGED <<in_edit, map_file, saved, track_map>>

\* handle_button outside "SETUP" mode, BTN_UP and BTN_DOWN
HB_Nav(pin) ==
    /\ Pressed
    /\ operation_mode # "SETUP"
    /\ pin \in {"BTN_UP", "BTN_DOWN"}
    /\ selected_index' =
         IF pin = "BTN_UP" THEN Max(selected_index - 1, 0)
         ELSE LET limit == IF operation_mode # "main screen" THEN Len(paths)
                           ELSE Len(MODE_LIST)
              IN  Min(selected_index + 1, limit - 1)
    /\ UNCHANGED <<stop_flag, midi_thread, threads, playback_active,
                   playback_events, midi_outputs, openPorts, ngen, audio_proc,
                   running, nproc, nplays, track_map, sent, ctl, hist,
                   operation_mode, in_edit, paths, map_file, hb, saved>>

\* BTN_SELECT on the main screen
HB_SelectMain ==
    /\ Pressed
    /\ operation_mode = "main screen"
    /\ LET sel == MODE_LIST[selected_index + 1]
       IN  /\ operation_mode' = sel
           /\ selected_index' = 0
           /\ IF sel = "SETUP" THEN UNCHANGED paths
              ELSE \E found \in ScanResults : paths' = found
    /\ UNCHANGED <<stop_flag, midi_thread, threads, playback_active,
                   playback_events, midi_outputs, openPorts, ngen, audio_proc,
                   running, nproc, nplays, track_map, sent, ctl, hist,
                   in_edit, map_file, hb, saved>>

\* BTN_SELECT in "MIDI FILE" mode: play_midi_file(paths[selected_index]) when
\* the path is not ""
HB_SelectMidi ==
    /\ Pressed
    /\ operation_mode = "MIDI FILE"
    /\ IF paths[selected_index + 1] # 0
       THEN \E f \in PlayInputs : Enter_play_midi("c1", f)
       ELSE UNCHANGED <<stop_flag, midi_thread, threads, playback_active,
                        playback_events, midi_outputs, openPorts, ngen,
                        audio_proc, running, nproc, nplays, track_map, sent,
                        ctl, hist>>
    /\ UNCHANGED <<operation_mode, selected_index, in_edit, paths, map_file,
                   hb, saved>>

\* BTN_SELECT in "AUDIO FILE" mode: play_audio_file(paths[selected_index]) when
\* the path is not ""
HB_SelectAudio ==
    /\ Pressed
    /\ operation_mode = "AUDIO FILE"
    /\ IF paths[selected_index + 1] # 0
       THEN Enter_play_audio("c1")
       ELSE UNCHANGED <<stop_flag, midi_thread, threads, playback_active,
                        playback_events, midi_outputs, openPorts, ngen,
                        audio_proc, running, nproc, nplays, track_map, sent,
                        ctl, hist>>
    /\ UNCHANGED <<operation_mode, selected_index, in_edit, paths, map_file,
                   hb, saved>>

\* BTN_RESET outside "SETUP" mode: stop_all_playback() is called
HB_Reset ==
    /\ Pressed
    /\ operation_mode # "SETUP"
    /\ Enter_stop("c1")
    /\ hb' = "reset"
    /\ UNCHANGED <<operation_mode, selected_index, in_edit, paths, map_file,
                   saved>>

\* ... and when it has returned: operation_mode = "main screen";
\* selected_index = 0; scan_files()
HB_ResetDone ==
    /\ hb = "reset"
    /\ ctl["c1"].pc = "idle"
    /\ operation_mode' = "main screen"
    /\ selected_index' = 0
    /\ \E found \in ScanResults : paths' = found
    /\ hb' = "idle"
    /\ UNCHANGED <<stop_flag, midi_thread, threads, playback_active,
                   playback_events, midi_outputs, openPorts, ngen, audio_proc,
                   running, nproc, nplays, track_map, sent, ctl, hist,
                   in_edit, map_file, npress, saved>>

(* The program before main() has run, with any persisted channel map file
   within the bounds. *)
InitBoot ==
    /\ stop_flag = FALSE
    /\ midi_thread = 0
    /\ threads = [t \in ThreadIds |-> Unborn]
    /\ playback_active = FALSE
    /\ playback_events = <<>>
    /\ midi_outputs = <<>>
    /\ openPorts = {}
    /\ ngen = 0
    /\ audio_proc = 0
    /\ running = {}
    /\ nproc = 0
    /\ nplays = 0
    /\ track_map = <<>>
    /\ sent = <<>>
    /\ ctl = [c \in Callers |-> Idle]
    /\ hist = NoHist
    /\ operation_mode = "main screen"
    /\ selected_index = 0
    /\ in_edit = FALSE
    /\ paths = <<>>
    /\ \/ map_file \in {NoFile, NotJson, NotObject}
       \/ \E n \in 0..MaxItems :
             \E ks \in [1..n -> KeyStrs], vs \in [1..n -> JVals] :
                /\ \A a, b \in 1..n : a # b => ks[a] # ks[b]
                /\ map_file = JObject([k \in 1..n |-> <<ks[k], vs[k]>>])
    /\ hb = "boot"
    /\ npress = 0
    /\ saved = "none"

(* load_mapping on every persisted file within the bounds. *)
NextLoad == Main_load

SpecLoad == InitBoot /\ [][NextLoad]_vars

(* main() and the setup menu: the presses that lead to "SETUP" mode and those
   handled in it, started with no persisted file, one that does not load, or
   an object of at most one item. *)
InitSetup ==
    /\ InitBoot
    /\ Len(map_file.items) <= 1

NextSetup ==
    \/ Main_load
    \/ \E pin \in Pins : HB_Nav(pin)
    \/ HB_SelectMain
    \/ \E pin \in Pins : HB_Setup(pin)

SpecSetup == InitSetup /\ [][NextSetup]_vars

(* The whole interface with one press handled at a time, the worker threads
   and the decoder processes, started with no persisted channel map. *)
InitUI ==
    /\ InitBoot
    /\ map_file = NoFile

NextUI ==
    \/ Main_load
    \/ \E pin \in Pins : HB_Nav(pin)
    \/ HB_SelectMain
    \/ \E pin \in Pins : HB_Setup(pin)
    \/ HB_SelectMidi
    \/ HB_SelectAudio
    \/ HB_Reset
    \/ HB_ResetDone
    \/ Steps("c1")
    \/ \E t \in ThreadIds : Worker(t)
    \/ ProcExit

SpecUI == InitUI /\ [][NextUI]_vars

(* The session model with the scheduler's fairness: a thread that can run
   does run, be it a worker or the controller inside a call. The controller
   is free not to call. *)
SpecFair ==
    /\ Spec
    /\ \A t \in ThreadIds : WF_vars(Worker(t))
    /\ \A c \in SeqCallers : WF_vars(Steps(c))

(* The session model with two callers, each in a thread of its own: "c1" is
   the callback of BTN_SELECT calling play_midi_file, "c2" the callback of
   BTN_RESET, or main() at KeyboardInterrupt, calling stop_all_playback. *)
NextConc ==
    \/ \E f \in PlayInputs : Call_play_midi("c1", f)
    \/ PM_Set("c1")
    \/ PM_Join("c1")
    \/ PM_Clear("c1")
    \/ PM_Parse("c1")
    \/ PM_Open("c1")
    \/ PM_Act("c1")
    \/ PM_Start("c1")
    \/ Call_stop("c2")
    \/ ST_Set("c2")
    \/ ST_Join("c2")
    \/ ST_Close("c2")
    \/ ST_Deact("c2")
    \/ ST_Term("c2")
    \/ \E t \in ThreadIds : Worker(t)

SpecConc == Init /\ [][NextConc]_vars

(* The timeline builder on every file within the bounds: the first call of
   play_midi_file, arrived at the parse of its file. *)
InitBuild ==
    /\ stop_flag = FALSE
    /\ midi_thread = 0
    /\ threads = [t \in ThreadIds |-> Unborn]
    /\ playback_active = FALSE
    /\ playback_events = <<>>
    /\ midi_outputs = <<>>
    /\ openPorts = {}
    /\ ngen = 0
    /\ audio_proc = 0
    /\ running = {}
    /\ nproc = 0
    /\ nplays = 1
    /\ track_map = DefaultMap
    /\ sent = <<>>
    /\ \E nt \in 0..MaxTracks, n \in 0..MaxEvents :
          \E flat \in [1..n -> MsgVals], l \in Lens(nt, n) :
             ctl = [c \in Callers |->
                       IF c = "c1"
                       THEN [pc |-> "pm_parse", op |-> "play_midi",
                             file |-> MidiFile(MkTracks(flat, l)),
                             pre |-> NoPre, obs |-> NoObs]
                       ELSE Idle]
    /\ hist = NoHist
    /\ operation_mode = "MIDI FILE"
    /\ selected_index = 0
    /\ in_edit = FALSE
    /\ paths = <<1>>
    /\ map_file = NoFile
    /\ hb = "idle"
    /\ npress = 2
    /\ saved = "none"

NextBuild == PM_Parse("c1")

SpecBuild == InitBuild /\ [][NextBuild]_vars

(* The channel router on any track index within the bounds and any track map
   load_mapping yields from a file within the bounds: a worker asleep before
   a note of that track, one port open. *)
InitRoute ==
    /\ stop_flag = FALSE
    /\ midi_thread = 1
    /\ \E n \in 0..MaxItems :
          track_map \in
              {DefaultMap} \cup
              {LoadMapping(JObject([k \in 1..n |-> <<kv[1][k], kv[2][k]>>])) :
                  kv \in [1..n -> KeyStrs] \X [1..n -> JVals]}
    /\ \E idx \in (0 - MaxIdx)..MaxIdx :
          /\ playback_events = <<Entry(0, idx, Msg(<<0, FALSE>>, 1))>>
          /\ threads = [t \in ThreadIds |->
                          IF t = 1
                          THEN [Unborn EXCEPT !.pc = "sleep", !.i = 1,
                                              !.events = playback_events]
                          ELSE Unborn]
    /\ playback_active = TRUE
    /\ midi_outputs = Opened({1}, 1)
    /\ openPorts = Range(midi_outputs)
    /\ ngen = 1
    /\ audio_proc = 0
    /\ running = {}
    /\ nproc = 0
    /\ nplays = 1
    /\ map_file = NoFile
    /\ sent = <<>>
    /\ ctl = [c \in Callers |-> Idle]
    /\ hist = [op |-> "play_midi", res |-> "ok", pre |-> NoPre]
    /\ operation_mode = "MIDI FILE"
    /\ selected_index = 0
    /\ in_edit = FALSE
    /\ paths = <<1>>
    /\ hb = "idle"
    /\ npress = 2
    /\ saved = "none"

NextRoute == W_Wake(1)

SpecRoute == InitRoute /\ [][NextRoute]_vars

(* =============================== claims ================================ *)
AllIdle == \A c \in Callers : ctl[c].pc = "idle"

\* A step in which some port.send succeeds.
SendStep == sent' # sent /\ sent' # <<>>

\* Caller c returns from a call of op in this step.
ReturnsFrom(c, op) == ctl[c].op = op /\ ctl[c].pc # "idle" /\ ctl'[c].pc = "idle"

\* Inactive, midi_outputs empty, no worker alive, no decoder process.
Stopped(o) ==
    /\ ~o.active
    /\ o.outputs = <<>>
    /\ o.alive = {}
    /\ o.audio = 0
    /\ o.running = {}

\* The playback state the claims speak of: the flag, the ports, the worker, the
\* decoder process, the timeline and the track map.
Seen(o) ==
    <<o.active, o.outputs, o.open, o.alive, o.audio \in o.running, o.running,
      o.events, o.map>>

NothingPlaying(o) == ~o.active /\ o.alive = {} /\ o.audio \notin o.running

\* C1: started while a session is dispatching, play_midi_file reaches
\* open_all_midi_outputs only when the old worker has exited and every port is
\* closed; never are two workers alive; no send of an older worker follows a
\* send of a newer one.
C1_OldSessionClosedBeforeOpen ==
    /\ Cardinality(AliveThreads) <= 1
    /\ \A c \in Callers :
          (ctl[c].pc = "pm_open" /\ ctl[c].pre.alive)
              => (AliveThreads = {} /\ openPorts = {})
    /\ \A a, b \in DOMAIN sent : a < b => sent[a].th <= sent[b].th

\* C2: never is a worker alive, or playback_active true, while audio_proc holds
\* a running decoder process.
C2_MidiXorDecoder ==
    ~((AliveThreads # {} \/ playback_active) /\ audio_proc \in running)

\* C3: the step that launches the decoder process starts from a state with no
\* worker alive, midi_outputs empty, playback_active false and no decoder
\* process running.
C3_StoppedBeforeLaunch ==
    [][nproc' = nproc + 1 =>
          (AliveThreads = {} /\ midi_outputs = <<>> /\ ~playback_active
           /\ running = {})]_vars

\* play_audio_file has launched a decoder, called with a worker alive and
\* another decoder process running.
C3_Witness ==
    /\ hist.op = "play_audio"
    /\ hist.res = "ok"
    /\ hist.pre.alive
    /\ hist.pre.decoding
    /\ audio_proc \in running

\* C4: in the state in which stop_all_playback returns no worker is alive,
\* midi_outputs is empty, every port the call found in it is closed,
\* playback_active is false and audio_proc is None; and from then until the
\* next call has returned no send happens.
C4_StopIsBarrier ==
    /\ [][\A c \in Callers :
            ReturnsFrom(c, "stop") =>
                (/\ AliveThreads' = {}
                 /\ midi_outputs' = <<>>
                 /\ Range(ctl[c].obs.outputs) \cap openPorts' = {}
                 /\ ~playback_active'
                 /\ audio_proc' = 0)]_vars
    /\ [][hist.op = "stop" => ~SendStep]_vars

\* stop_all_playback has returned, called with a worker alive and a decoder
\* process running.
C4_Witness ==
    /\ hist.op = "stop"
    /\ hist.pre.alive
    /\ hist.pre.decoding
    /\ AllIdle
    /\ playback_events # <<>>

\* C5: stop_all_playback leaves playback stopped (inactive, midi_outputs empty
\* and its ports closed, no worker, no decoder); the state a stop has left
\* stays as it is until the next call, and a stop called right after a stop
\* returns in the state it was called in; a call when nothing is playing
\* leaves the playback state it found.
C5_StopIdempotent ==
    /\ [][\A c \in Callers :
            ReturnsFrom(c, "stop")
                => (/\ Stopped(Obs')
                    /\ Range(ctl[c].obs.outputs) \cap openPorts' = {}
                    /\ hist.op = "stop" => Obs' = ctl[c].obs
                    /\ NothingPlaying(ctl[c].obs)
                          => Seen(Obs') = Seen(ctl[c].obs))]_vars
    /\ [][(hist.op = "stop" /\ AllIdle) => Obs' = Obs]_vars

\* A second stop in a row has returned, after a session with a timeline.
C5_Witness ==
    /\ hist.op = "stop"
    /\ hist.pre.after = "stop"
    /\ AllIdle
    /\ hist.pre.ngen > 0
    /\ playback_events # <<>>

\* C6: when play_midi_file raises on its file, no worker is alive, no port was
\* opened for the call, playback_active is false and the ports of the session
\* before are closed.
C6_ParseErrorLeavesStopped ==
    (hist.op = "play_midi" /\ hist.res = "error" /\ AllIdle)
        => (/\ AliveThreads = {}
            /\ ~playback_active
            /\ openPorts = {}
            /\ midi_outputs = <<>>
            /\ ngen = hist.pre.ngen)

\* C7: a send that raises does not end the worker's loop over the ports and the
\* timeline, and a worker that has ended has closed every port and cleared
\* playback_active.
C7_SendFailureNonFatal ==
    /\ [][\A t \in ThreadIds :
            threads[t].pc = "send" => threads'[t].pc \in {"send", "iter"}]_vars
    /\ []((AllIdle /\ hist.op = "play_midi" /\ hist.res = "ok"
           /\ ~Alive(midi_thread))
            => (midi_outputs = <<>> /\ openPorts = {} /\ ~playback_active))

\* C8: with no worker alive and no call in progress midi_outputs is empty, no
\* port is open and playback_active is false; open_all_midi_outputs never
\* replaces a list that holds an open port.
C8_PortsPaired ==
    /\ (AliveThreads = {} /\ AllIdle)
          => (midi_outputs = <<>> /\ openPorts = {} /\ ~playback_active)
    /\ \A c \in Callers :
          ctl[c].pc = "pm_open" => Range(midi_outputs) \cap openPorts = {}

(* ---- the timeline builder ---- *)
Sorted(events) ==
    \A a, b \in DOMAIN events : a < b => events[a].abs_tick <= events[b].abs_tick

\* The non-meta messages of a file, each as <<track index, place in the track>>.
NonMeta(mid) ==
    {e \in UNION {{<<n - 1, k>> : k \in DOMAIN mid.tracks[n]} : n \in DOMAIN mid.tracks} :
        ~mid.tracks[e[1] + 1][e[2]].is_meta}

Places(events, e) ==
    {p \in DOMAIN events : events[p].track_idx = e[1] /\ events[p].msg.id = e[2]}

\* The file whose timeline a call has just built.
Built(c) == ctl[c].pc = "pm_open"

\* C9: the timeline built from a file is sorted non-decreasingly by absolute
\* tick and holds exactly the non-meta events of the file, each once.
C9_TimelineSortedNonMeta ==
    \A c \in Callers :
        Built(c) =>
            LET mid == ctl[c].file
            IN  /\ Sorted(playback_events)
                /\ Len(playback_events) = Cardinality(NonMeta(mid))
                /\ \A e \in NonMeta(mid) :
                      /\ Cardinality(Places(playback_events, e)) = 1
                      /\ \A p \in Places(playback_events, e) :
                            playback_events[p].msg = mid.tracks[e[1] + 1][e[2]]
                /\ \A p \in DOMAIN playback_events :
                      <<playback_events[p].track_idx, playback_events[p].msg.id>>
                          \in NonMeta(mid)

\* A file with a meta event whose track-after-track event list is not sorted.
C9_Witness ==
    \E c \in Callers :
        /\ Built(c)
        /\ Len(ctl[c].file.tracks) = 2
        /\ Len(playback_events) = 2
        /\ \E k \in DOMAIN ctl[c].file.tracks[1] : ctl[c].file.tracks[1][k].is_meta
        /\ playback_events[1].track_idx = 1
        /\ playback_events[2].track_idx = 0

RECURSIVE DeltaSum(_, _)
DeltaSum(track, k) == IF k = 0 THEN 0 ELSE track[k].time + DeltaSum(track, k - 1)

\* C10: the absolute tick of every timeline entry is the sum of the delta-ticks
\* of the events of its track, meta events included, up to and including it.
C10_DeltaAccumulation ==
    \A c \in Callers :
        Built(c) =>
            \A p \in DOMAIN playback_events :
                LET e == playback_events[p]
                IN  e.abs_tick = DeltaSum(ctl[c].file.tracks[e.track_idx + 1], e.msg.id)

\* The second track holds a note behind a meta event with a delta, and the
\* first track ends at a later tick than that note.
C10_Witness ==
    \E c \in Callers :
        /\ Built(c)
        /\ Len(ctl[c].file.tracks) = 2
        /\ Len(ctl[c].file.tracks[2]) = 2
        /\ ctl[c].file.tracks[2][1].is_meta
        /\ ctl[c].file.tracks[2][1].time > 0
        /\ ~ctl[c].file.tracks[2][2].is_meta
        /\ \E p \in DOMAIN playback_events :
              /\ playback_events[p].track_idx = 0
              /\ playback_events[p].abs_tick > 0

\* C15: entries of the same absolute tick stand in the timeline by ascending
\* track index and, within a track, in the order of the file; with the ticks
\* non-decreasing this is the stable sort by tick of the tracks' events taken
\* track after track.
C15_TieBreakTrackThenFileOrder ==
    \A c \in Callers :
        Built(c) =>
            \A p, q \in DOMAIN playback_events :
                p < q =>
                    LET a == playback_events[p]
                        b == playback_events[q]
                    IN  \/ a.abs_tick < b.abs_tick
                        \/ /\ a.abs_tick = b.abs_tick
                           /\ \/ a.track_idx < b.track_idx
                              \/ /\ a.track_idx = b.track_idx
                                 /\ a.msg.id < b.msg.id

\* Track 0 with notes at ticks 0 and 2 and track 1 with notes at ticks 1 and 2
\* give the order 0 (track 0), 1 (track 1), 2 (track 0), 2 (track 1).
C15_Witness ==
    \E c \in Callers :
        /\ Built(c)
        /\ Len(ctl[c].file.tracks) = 2
        /\ Len(ctl[c].file.tracks[1]) = 2
        /\ Len(ctl[c].file.tracks[2]) = 2
        /\ Len(playback_events) = 4
        /\ [k \in 1..2 |-> ctl[c].file.tracks[1][k].time] = <<0, 2>>
        /\ [k \in 1..2 |-> ctl[c].file.tracks[2][k].time] = <<1, 1>>
        /\ [p \in 1..4 |-> <<playback_events[p].abs_tick,
                             playback_events[p].track_idx>>]
              = << <<0, 0>>, <<1, 1>>, <<2, 0>>, <<2, 1>> >>

(* ---- the channel router ---- *)
\* r is the residue of n modulo m: in 0..m-1 and apart from n by a multiple
\* of m.
Residue(r, n, m) ==
    /\ r \in 0..(m - 1)
    /\ \E q \in (0 - (MaxIdx + m))..(MaxIdx + m) : n = (q * m) + r

\* The worker has computed the channel of the entry it is about to send.
Routed(t) == threads[t].pc = "send"

\* C11: whatever the track index and the track map, the channel the worker
\* computes lies in 0..15; it is the stored value modulo 16 for a track the
\* map holds and the track index modulo 16 for any other.
C11_RouteTotalInRange ==
    \A t \in ThreadIds :
        Routed(t) =>
            LET idx == Cur(t).track_idx
            IN  /\ threads[t].ch \in 0..15
                /\ idx \in DOMAIN track_map
                      => Residue(threads[t].ch, track_map[idx], 16)
                /\ idx \notin DOMAIN track_map
                      => Residue(threads[t].ch, idx, 16)

\* The channel of a negative track index that the map does not hold, the map
\* holding a value outside 0..15 for another track.
C11_Witness ==
    \E t \in ThreadIds :
        /\ Routed(t)
        /\ Cur(t).track_idx = 0 - 17
        /\ Cur(t).track_idx \notin DOMAIN track_map
        /\ \E k \in DOMAIN track_map : track_map[k] \notin 0..15
        /\ threads[t].ch = 15

(* ---- the channel map and its file ---- *)
\* load_mapping has run.
Loaded == hb # "boot"

\* C12: once load_mapping has run, and whatever the setup menu does then,
\* track_map has an entry for every track 0..15 and every value it holds lies
\* in 0..15.
C12_ChannelMapTotalInRange ==
    Loaded =>
        /\ \A i \in 0..15 : i \in DOMAIN track_map
        /\ \A k \in DOMAIN track_map : track_map[k] \in 0..15

\* The string is an optional sign and then digits only, at least one.
IntText(s) ==
    \E sign \in {<<>>, <<"-">>, <<"+">>} :
        \E n \in 1..Len(s) :
            /\ Len(s) = Len(sign) + n
            /\ SubSeq(s, 1, Len(sign)) = sign
            /\ \A k \in (Len(sign) + 1)..Len(s) : s[k] \in Range(Digits)

\* The persisted file is missing, is not JSON, is not an object, or holds a key
\* or a value that int() does not convert.
CannotLoad(content) ==
    \/ content.kind # "object"
    \/ \E n \in DOMAIN content.items :
          \/ ~IntText(content.items[n][1])
          \/ content.items[n][2].t = "null"
          \/ content.items[n][2].t = "str" /\ ~IntText(content.items[n][2].s)

\* load_mapping has just run: no button was pressed since.
JustLoaded == Loaded /\ npress = 0

ConfirmedAndWritten == in_edit /\ ~in_edit' /\ saved' = "ok"

\* C14: right after a confirmed edit whose write worked the persisted file
\* holds the whole map, one item for each track of track_map, and
\* load_mapping would read from it a map equal to track_map; and so it is in
\* every state outside an edit when the last confirmed edit was written.
C14_SaveLoadRoundTrip ==
    /\ [][ConfirmedAndWritten =>
             (/\ map_file'.kind = "object"
              /\ Len(map_file'.items) = Cardinality(DOMAIN track_map')
              /\ LoadMapping(map_file') = track_map')]_vars
    /\ []((~in_edit /\ saved = "ok") => LoadMapping(map_file) = track_map)

\* An edit of the identity map has been confirmed and written: track 0 goes
\* to channel 1.
C14_Witness ==
    /\ ~in_edit
    /\ saved = "ok"
    /\ DOMAIN track_map = 0..15
    /\ track_map[0] = 1
    /\ \A i \in 1..15 : track_map[i] = i

(* ---- delivery and cancellation ---- *)
\* The timeline entries port p was sent, by their place in the timeline, in
\* the order of the sends.
PortSeq(p) ==
    LET got == SelectSeq(sent, LAMBDA e : e.port = p)
    IN  [k \in DOMAIN got |-> got[k].idx]

\* Worker t is in its loop over the timeline.
InLoop(t) == threads[t].pc \in {"iter", "sleep", "send"}

\* Worker t leaves its loop over the timeline in this step.
LeavesLoop(t) == InLoop(t) /\ threads'[t].pc \notin {"iter", "sleep", "send"}

\* C16: what a port has been sent during a session is the timeline's first
\* entries, each once and in timeline order, so by non-decreasing tick; when
\* the worker leaves its loop every port of the session has been sent the same
\* entries, and all of the timeline unless the session was cancelled.
C16_DeliveryIsTimelinePrefix ==
    /\ [](\A t \in ThreadIds : \A p \in Range(midi_outputs) :
            InLoop(t) =>
                /\ \A k \in DOMAIN PortSeq(p) : PortSeq(p)[k] = k
                /\ Len(PortSeq(p)) <= Len(playback_events)
                /\ \A k \in DOMAIN PortSeq(p) :
                      k > 1 => playback_events[k - 1].abs_tick
                                   <= playback_events[k].abs_tick)
    /\ [][\A t \in ThreadIds :
            LeavesLoop(t) =>
                /\ \A p, q \in Range(midi_outputs) : PortSeq(p) = PortSeq(q)
                /\ ~stop_flag =>
                      \A p \in Range(midi_outputs) :
                          Len(PortSeq(p)) = Len(playback_events)]_vars

\* C17: from the moment stop_flag is set no worker sends an event to a port,
\* not even the event whose sleep was under way.
C17_NoSendOnceStopRequested ==
    [][stop_flag => ~SendStep]_vars

\* Caller c waits in the join of stop_all_playback or of play_midi_file.
Joining(c) == ctl[c].pc \in {"st_join", "pm_join"}

\* C18: once stop_flag is set a worker begins no further sleep and moves on
\* to no further timeline entry, and when it ends it has closed the ports;
\* so, the threads being scheduled fairly, a join always returns.
C18_StopResponseBounded ==
    /\ [][stop_flag =>
            \A t \in ThreadIds :
                /\ threads'[t].pc = "sleep" => threads[t].pc = "sleep"
                /\ Alive(t)'
                      => threads'[t].i = threads[t].i]_vars
    /\ [][stop_flag =>
            \A t \in ThreadIds :
                (Alive(t) /\ ~Alive(t)')
                    => (midi_outputs' = <<>> /\ openPorts' = {})]_vars
    /\ \A c \in SeqCallers : Joining(c) ~> ~Joining(c)

(* ---- concurrent callers ---- *)
\* Caller c opens or closes the port list in this step.
TouchesPorts(c) ==
    /\ ctl[c].pc \in {"pm_open", "st_close"}
    /\ ctl'[c].pc # ctl[c].pc

\* C19: with calls issued from different threads at once, never are two
\* workers alive, stop_all_playback never returns while a worker is alive,
\* and no call opens or closes the port list while a worker is alive.
C19_CallsSerialized ==
    /\ [](Cardinality(AliveThreads) <= 1)
    /\ [][\A c \in Callers : ReturnsFrom(c, "stop") => AliveThreads' = {}]_vars
    /\ [][\A c \in Callers : TouchesPorts(c) => AliveThreads = {}]_vars

(* ---- the interface ---- *)
\* C20: with the presses handled one at a time, on the main screen and in
\* "SETUP" mode no worker is alive and audio_proc is None, in "MIDI FILE" mode
\* audio_proc is None, in "AUDIO FILE" mode no worker is alive; the setup menu
\* changes track_map only when no worker is alive, and in_edit is true in
\* "SETUP" mode only.
C20_PlaybackOnlyInItsMode ==
    /\ [](/\ operation_mode \in {"main screen", "SETUP"}
             => (AliveThreads = {} /\ audio_proc = 0)
          /\ operation_mode = "MIDI FILE" => audio_proc = 0
          /\ operation_mode = "AUDIO FILE" => AliveThreads = {}
          /\ in_edit => operation_mode = "SETUP")
    /\ [][(Loaded /\ track_map' # track_map) => AliveThreads = {}]_vars

\* A MIDI file was played, BTN_RESET stopped it while its worker was alive,
\* and the setup menu has been entered.
C20_Witness ==
    /\ operation_mode = "SETUP"
    /\ nplays > 0
    /\ playback_events # <<>>
    /\ hist.op = "stop"
    /\ hist.pre.alive

====
